---- MODULE Spec2Model ----
(***************************************************************************)
(* Model of tools/simulink_postgen_patch.py: the post-generation patcher   *)
(* of the Simulink-generated BLDC_controller files.                        *)
(*                                                                         *)
(* A text is a sequence of lexemes.  White space is kept character by      *)
(* character ("SP", "CR", "LF"); every other lexeme stands for the fixed   *)
(* piece of C text named beside it in Lexemes.  The regular expressions of *)
(* the script are evaluated on these sequences with Python's rules:        *)
(* leftmost match, greedy \s* with backtracking, ^ after "\n" and $ before *)
(* "\n" or at the end under re.MULTILINE.                                   *)
(***************************************************************************)
EXTENDS Integers, Sequences, FiniteSets

VARIABLES disk, exists, orig, run, pc, idx, rule, original, text, newline,
          details, prev, last, d, edits, wrote, err

vars == <<disk, exists, orig, run, pc, idx, rule, original, text, newline,
          details, prev, last, d, edits, wrote, err>>

----------------------------------------------------------------------------
(* Lexemes *)

SP == "SP"   \* " "
CR == "CR"   \* "\r"
LF == "LF"   \* "\n"

IFNDEF_CI == "#ifndef BLDC_controller_COMMON_INCLUDES_"
DEFINE_CI == "#define BLDC_controller_COMMON_INCLUDES_"
INC_RTW == "#include \"rtwtypes.h\""
IFNDEF_MCU == "#ifndef mcu_model"
INC_CONFIG == "#include \"config.h\""
ENDIF == "#endif"
STRUCT_RTM == "struct tag_RTM {"
DEFPARAM == "P *defaultParam;"
EXTERN_RTP == "extern P rtP;"
SLASHES == "//"
NEEDLE == "P *rtP = ((P *) rtM->defaultParam);"
LBRACE == "{"
RBRACE == "}"
RTP == "rtP"
RTp == "rtp"
DOT == "."
ARROW == "->"
WORD == "x"          \* one identifier character
STMT == ";"          \* any other text without identifier characters at its ends
TYPE_P == "P"
SUFFIX_LEFT == "_Left"
EQ == "="
INIT_FN == "BLDC_controller_initialize"
STEP_FN == "BLDC_controller_step"

\* the line the exact signature pattern describes
SigLexeme(function_name) ==
    IF function_name = INIT_FN THEN "void BLDC_controller_initialize(RT_MODEL *const rtM)"
    ELSE "void BLDC_controller_step(RT_MODEL *const rtM)"
\* a prototype: it names the function, RT_MODEL and rtM, and is no signature line
ProtoLexeme(function_name) ==
    IF function_name = INIT_FN THEN "extern void BLDC_controller_initialize(RT_MODEL *const rtM);"
    ELSE "extern void BLDC_controller_step(RT_MODEL *const rtM);"

\* \s
IsSpace(c) == c \in {SP, CR, LF}
\* the last character of the lexeme is \w
EndsWord(c) == c \in {WORD, RTP, RTp, TYPE_P, SUFFIX_LEFT}

Max(S) == CHOOSE m \in S : \A k \in S : k <= m
Min(S) == CHOOSE m \in S : \A k \in S : m <= k

RECURSIVE SkipSpace(_, _)
\* the first index >= i that holds no white space (Len(t) + 1 when none): greedy \s*
SkipSpace(t, i) == IF i <= Len(t) /\ IsSpace(t[i]) THEN SkipSpace(t, i + 1) ELSE i

\* p in t
Contains(t, p) == \E i \in 1..(Len(t) - Len(p) + 1) : SubSeq(t, i, i + Len(p) - 1) = p

\* t[:pos] + ins + t[pos:], pos the index of the first lexeme after the insertion point
InsertAt(t, pos, ins) == SubSeq(t, 1, pos - 1) \o ins \o SubSeq(t, pos, Len(t))

Detail(msg, n) == [msg |-> msg, n |-> n]
Result(t, ds, e) == [text |-> t, details |-> ds, err |-> e]
NoError == "none"

----------------------------------------------------------------------------
(* _detect_newline *)

_detect_newline(t) ==
    IF \E i \in 1..(Len(t) - 1) : t[i] = CR /\ t[i + 1] = LF THEN <<CR, LF>> ELSE <<LF>>

----------------------------------------------------------------------------
(* _patch_header, block 1: the guarded include of config.h *)

guarded_include(nl) == <<IFNDEF_MCU>> \o nl \o <<INC_CONFIG>> \o nl \o <<ENDIF>>

\* include_block_re matched at i: m.end(1) as the index after the match, 0 for no match.
\* Between the three directives "\s*\r?\n" takes a white-space run that ends in "\n";
\* after the last one it gives back to the last "\n" of the run.
IncludeBlockEnd(t, i) ==
    IF t[i] # IFNDEF_CI THEN 0 ELSE
    LET a == SkipSpace(t, i + 1) IN
    IF ~(a > i + 1 /\ t[a - 1] = LF /\ a <= Len(t) /\ t[a] = DEFINE_CI) THEN 0 ELSE
    LET b == SkipSpace(t, a + 1) IN
    IF ~(b > a + 1 /\ t[b - 1] = LF /\ b <= Len(t) /\ t[b] = INC_RTW) THEN 0 ELSE
    LET c == SkipSpace(t, b + 1)
        lfs == {k \in (b + 1)..(c - 1) : t[k] = LF}
    IN  IF lfs = {} THEN 0 ELSE Max(lfs) + 1

\* include_block_re.search(text): the leftmost match
IncludeBlockSearch(t) ==
    LET hits == {i \in 1..Len(t) : IncludeBlockEnd(t, i) # 0}
    IN  IF hits = {} THEN 0 ELSE IncludeBlockEnd(t, Min(hits))

_patch_header_include(t, nl) ==
    IF Contains(t, guarded_include(nl)) THEN Result(t, <<>>, NoError)
    ELSE LET e == IncludeBlockSearch(t) IN
         IF e = 0 THEN Result(t, <<>>, "no COMMON_INCLUDES block")
         ELSE Result(InsertAt(t, e, guarded_include(nl) \o nl),
                     <<Detail("added guarded include", 0)>>, NoError)

----------------------------------------------------------------------------
(* _patch_header, block 2: RT_MODEL::defaultParam *)

\* re "(struct\s+tag_RTM\s*\{\s*)": m.end(1) of the leftmost match, 0 for no match
StructSearch(t) ==
    LET hits == {i \in 1..Len(t) : t[i] = STRUCT_RTM}
    IN  IF hits = {} THEN 0 ELSE SkipSpace(t, Min(hits) + 1)

_patch_header_defaultParam(t, nl) ==
    IF Contains(t, <<DEFPARAM>>) THEN Result(t, <<>>, NoError)
    ELSE LET e == StructSearch(t) IN
         IF e = 0 THEN Result(t, <<>>, "no struct tag_RTM")
         ELSE Result(InsertAt(t, e, <<SP, SP, DEFPARAM>> \o nl),
                     <<Detail("added defaultParam", 0)>>, NoError)

----------------------------------------------------------------------------
(* _patch_header, block 3: comment out "extern P rtP;" *)

\* r"^(?P<indent>\s*)extern\s+P\s+rtP\s*;\s*$" (MULTILINE) tried at p: the index
\* after the match, 0 for no match.  The trailing \s* is greedy and gives back
\* until $ holds: at the end of the text, or before an "\n".
ExternMatchEnd(t, p) ==
    IF ~(p = 1 \/ t[p - 1] = LF) THEN 0 ELSE
    LET q == SkipSpace(t, p) IN
    IF q > Len(t) \/ t[q] # EXTERN_RTP THEN 0 ELSE
    LET r == SkipSpace(t, q + 1) IN
    IF r > Len(t) THEN r
    ELSE LET c == {e \in (q + 1)..(r - 1) : t[e] = LF}
         IN  IF c = {} THEN 0 ELSE Max(c)

\* repl_extern
repl_extern(indent) == indent \o <<SLASHES, EXTERN_RTP>>

RECURSIVE ExternSubn(_, _)
\* re.subn from position p on: the rewritten rest of the text and the number of
\* matches.  The next match is the leftmost one that starts at or after p; the
\* search goes on where it ended.
ExternSubn(t, p) ==
    LET hits == {m \in p..Len(t) : ExternMatchEnd(t, m) # 0} IN
    IF hits = {} THEN [out |-> SubSeq(t, p, Len(t)), n |-> 0]
    ELSE LET m == Min(hits)
             r == ExternSubn(t, ExternMatchEnd(t, m))
         IN  [out |-> SubSeq(t, p, m - 1)
                      \o repl_extern(SubSeq(t, m, SkipSpace(t, m) - 1)) \o r.out,
              n |-> r.n + 1]

\* _patch_header_extern without "if n:": the detail is recorded whatever n is
_patch_header_extern_unguarded(t) ==
    Result(ExternSubn(t, 1).out, <<Detail("commented out extern", 0)>>, NoError)

_patch_header_extern(t) ==
    LET s == ExternSubn(t, 1) IN
    IF s.n # 0 THEN Result(s.out, <<Detail("commented out extern", 0)>>, NoError)
    ELSE Result(t, <<>>, NoError)

----------------------------------------------------------------------------
(* _ensure_local_param_ptr *)

BraceWindow == 10
NeedleWindow == 25

\* a line ends with the lexeme at i: "\n" (alone or of "\r\n"), or a lone "\r"
LineEnd(t, i) == t[i] = LF \/ (t[i] = CR /\ ~(i < Len(t) /\ t[i + 1] = LF))

RECURSIVE splitlines(_)
\* text.splitlines(keepends=True).  The text is cut at a line end near its middle
\* and the halves are split in turn: the lines are those of a scan from the left.
splitlines(t) ==
    IF t = <<>> THEN <<>>
    ELSE LET ends == {i \in 1..(Len(t) - 1) : LineEnd(t, i)}
             right == {i \in ends : 2 * i >= Len(t)}
         IN  IF ends = {} THEN <<t>>
             ELSE LET e == IF right # {} THEN Min(right) ELSE Max(ends)
                  IN  splitlines(SubSeq(t, 1, e)) \o splitlines(SubSeq(t, e + 1, Len(t)))

RECURSIVE join(_)
\* "".join(lines), by halves
join(lines) ==
    IF lines = <<>> THEN <<>>
    ELSE IF Len(lines) = 1 THEN lines[1]
    ELSE LET h == Len(lines) \div 2
         IN  join(SubSeq(lines, 1, h)) \o join(SubSeq(lines, h + 1, Len(lines)))

RECURSIVE rstrip(_)
\* line.rstrip("\r\n")
rstrip(s) ==
    IF s # <<>> /\ s[Len(s)] \in {CR, LF} THEN rstrip(SubSeq(s, 1, Len(s) - 1)) ELSE s

\* signature_re.match(line.rstrip("\r\n"))
SignatureMatch(line, function_name) ==
    LET s == rstrip(line)
        a == SkipSpace(s, 1)
    IN  a <= Len(s) /\ s[a] = SigLexeme(function_name) /\ SkipSpace(s, a + 1) = Len(s) + 1

\* function_name in line and "RT_MODEL" in line and "rtM" in line
FallbackMatch(line, function_name) ==
    /\ \E k \in 1..Len(line) :
          line[k] \in {SigLexeme(function_name), ProtoLexeme(function_name), function_name}
    /\ \E k \in 1..Len(line) :
          line[k] \in {SigLexeme(INIT_FN), SigLexeme(STEP_FN),
                       ProtoLexeme(INIT_FN), ProtoLexeme(STEP_FN)}
    /\ \E k \in 1..Len(line) :
          line[k] \in {SigLexeme(INIT_FN), SigLexeme(STEP_FN),
                       ProtoLexeme(INIT_FN), ProtoLexeme(STEP_FN), NEEDLE}

\* sig_idx (from 1), 0 for None
FindSignature(lines, function_name) ==
    LET exact == {i \in 1..Len(lines) : SignatureMatch(lines[i], function_name)}
        loose == {i \in 1..Len(lines) : FallbackMatch(lines[i], function_name)}
    IN  IF exact # {} THEN Min(exact) ELSE IF loose # {} THEN Min(loose) ELSE 0

\* range(a, min(a + w, len(lines))), from 1
Window(lines, a, w) == {j \in a..(a + w - 1) : j <= Len(lines)}

\* FindBrace looking one line further
FindBraceWide(lines, sig_idx) ==
    LET hits == {j \in Window(lines, sig_idx, BraceWindow + 1) : Contains(lines[j], <<LBRACE>>)}
    IN  IF hits = {} THEN 0 ELSE Min(hits)

\* brace_idx (from 1), 0 for None
FindBrace(lines, sig_idx) ==
    LET hits == {j \in Window(lines, sig_idx, BraceWindow) : Contains(lines[j], <<LBRACE>>)}
    IN  IF hits = {} THEN 0 ELSE Min(hits)

\* the check "already present shortly after brace"
NeedlePresent(lines, brace_idx) ==
    \E j \in Window(lines, brace_idx, NeedleWindow) : Contains(lines[j], <<NEEDLE>>)

_ensure_local_param_ptr(t, function_name) ==
    LET nl == _detect_newline(t)
        lines == splitlines(t)
        sig_idx == FindSignature(lines, function_name)
    IN  IF sig_idx = 0 THEN Result(t, <<>>, NoError)
        ELSE LET brace_idx == FindBrace(lines, sig_idx) IN
             IF brace_idx = 0 THEN Result(t, <<>>, "no opening brace")
             ELSE IF NeedlePresent(lines, brace_idx) THEN Result(t, <<>>, NoError)
             ELSE Result(join(InsertAt(lines, brace_idx + 1, <<<<SP, SP, NEEDLE>> \o nl>>)),
                         <<Detail("inserted local param pointer", 0)>>, NoError)

----------------------------------------------------------------------------
(* _patch_param_access *)

\* DotMatch without the \b: the name may be the tail of a longer identifier
DotMatchAnywhere(t, name, p) == t[p] = name /\ p < Len(t) /\ t[p + 1] = DOT

\* r"\b<name>\." matches at p
DotMatch(t, name, p) ==
    /\ t[p] = name
    /\ p = 1 \/ ~EndsWord(t[p - 1])
    /\ p < Len(t) /\ t[p + 1] = DOT

RECURSIVE DotSubn(_, _, _)
\* re.subn(r"\b<name>\.", "<name>->", text) from position p on: the next match is
\* the leftmost one at or after p, and the search goes on behind it
DotSubn(t, name, p) ==
    LET hits == {m \in p..Len(t) : DotMatch(t, name, m)} IN
    IF hits = {} THEN [out |-> SubSeq(t, p, Len(t)), n |-> 0]
    ELSE LET m == Min(hits)
             r == DotSubn(t, name, m + 2)
         IN  [out |-> SubSeq(t, p, m - 1) \o <<name, ARROW>> \o r.out, n |-> r.n + 1]

_patch_param_access(t) ==
    LET s1 == DotSubn(t, RTP, 1)
        s2 == DotSubn(s1.out, RTp, 1)
    IN  Result(s2.out,
               (IF s1.n # 0 THEN <<Detail("replaced rtP.", s1.n)>> ELSE <<>>)
               \o (IF s2.n # 0 THEN <<Detail("replaced rtp.", s2.n)>> ELSE <<>>),
               NoError)

----------------------------------------------------------------------------
(* _patch_data_params_name *)

\* r"^(\s*P\s+)rtP(\s*=)" (MULTILINE) tried at p: the index of "rtP", 0 for no match
RenameMatch(t, p) ==
    IF ~(p = 1 \/ t[p - 1] = LF) THEN 0 ELSE
    LET q == SkipSpace(t, p) IN
    IF q > Len(t) \/ t[q] # TYPE_P THEN 0 ELSE
    LET r == SkipSpace(t, q + 1) IN
    IF r = q + 1 \/ r > Len(t) \/ t[r] # RTP THEN 0 ELSE
    LET s == SkipSpace(t, r + 1) IN
    IF s > Len(t) \/ t[s] # EQ THEN 0 ELSE r

\* re.subn(..., count=1): only the leftmost match is rewritten
_patch_data_params_name(t) ==
    LET hits == {p \in 1..Len(t) : RenameMatch(t, p) # 0} IN
    IF hits = {} THEN Result(t, <<>>, NoError)
    ELSE Result(InsertAt(t, RenameMatch(t, Min(hits)) + 1, <<SUFFIX_LEFT>>),
                <<Detail("renamed default params", 0)>>, NoError)

----------------------------------------------------------------------------
(* patch_file and main *)

HEADER == "BLDC_controller.h"
SOURCE == "BLDC_controller.c"
DATA == "BLDC_controller_data.c"

\* main: targets
targets == <<HEADER, SOURCE, DATA>>
Files == {HEADER, SOURCE, DATA}

\* patch_file: the calls made for a file name, in order (_patch_header is three blocks)
Rules(name) ==
    CASE name = HEADER -> <<"include", "defaultParam", "extern">>
      [] name = SOURCE -> <<"ptr_initialize", "ptr_step", "param_access">>
      [] name = DATA -> <<"rename">>

Apply(r, t, nl) ==
    CASE r = "include" -> _patch_header_include(t, nl)
      [] r = "defaultParam" -> _patch_header_defaultParam(t, nl)
      [] r = "extern" -> _patch_header_extern(t)
      [] r = "ptr_initialize" -> _ensure_local_param_ptr(t, INIT_FN)
      [] r = "ptr_step" -> _ensure_local_param_ptr(t, STEP_FN)
      [] r = "param_access" -> _patch_param_access(t)
      [] r = "rename" -> _patch_data_params_name(t)

RECURSIVE RunRules(_, _, _)
\* the rules rs applied in order to t, stopping at the first that raises
RunRules(rs, t, nl) ==
    IF rs = <<>> THEN Result(t, <<>>, NoError)
    ELSE LET res == Apply(Head(rs), t, nl) IN
         IF res.err # NoError THEN res
         ELSE LET rest == RunRules(Tail(rs), res.text, nl)
              IN  Result(rest.text, res.details \o rest.details, rest.err)

\* the if/elif chain of patch_file on the text of the file called name
PatchText(name, t) == RunRules(Rules(name), t, _detect_newline(t))

\* Changed without the comparison: every file is written back
ChangedAlways(t, o) == TRUE

\* changed = text != original
Changed(t, o) == t # o

NoFile == <<>>

\* for p in targets: if not p.exists(): raise FileNotFoundError
MissingFile ==
    /\ pc = "loop" /\ idx <= Len(targets) /\ ~exists[targets[idx]]
    /\ pc' = "error" /\ err' = "FileNotFoundError"
    /\ UNCHANGED <<disk, exists, orig, run, idx, rule, original, text, newline,
                   details, prev, last, d, edits, wrote>>

\* patch_file: original = _read_text(path)
ReadFile ==
    /\ pc = "loop" /\ idx <= Len(targets) /\ exists[targets[idx]]
    /\ original' = disk[targets[idx]]
    /\ text' = disk[targets[idx]]
    /\ details' = <<>>
    /\ rule' = 1
    /\ pc' = "patch"
    /\ prev' = <<>>
    /\ last' = "none"
    /\ d' = <<>>
    /\ UNCHANGED <<disk, exists, orig, run, idx, newline, edits, wrote, err>>

\* one call "text, d = <rule>(text)" of patch_file (one block of _patch_header)
RuleStep(r) ==
    /\ pc = "patch" /\ rule <= Len(Rules(targets[idx])) /\ Rules(targets[idx])[rule] = r
    /\ LET nl == IF r = "include" THEN _detect_newline(text) ELSE newline
           res == Apply(r, text, nl)
       IN  /\ newline' = nl
           /\ prev' = text
           /\ last' = r
           /\ d' = res.details
           /\ IF res.err = NoError
              THEN /\ text' = res.text
                   /\ details' = details \o res.details
                   /\ rule' = rule + 1
                   /\ UNCHANGED <<pc, err>>
              ELSE /\ pc' = "error"
                   /\ err' = res.err
                   /\ UNCHANGED <<text, details, rule>>
    /\ UNCHANGED <<disk, exists, orig, run, idx, original, edits, wrote>>

PatchHeaderInclude == RuleStep("include")
PatchHeaderDefaultParam == RuleStep("defaultParam")
PatchHeaderExtern == RuleStep("extern")
EnsureInitialize == RuleStep("ptr_initialize")
EnsureStep == RuleStep("ptr_step")
PatchParamAccess == RuleStep("param_access")
PatchDataParamsName == RuleStep("rename")

\* patch_file: changed = text != original; if changed: _write_text; return FileEdit
WriteBack ==
    /\ pc = "patch" /\ rule > Len(Rules(targets[idx]))
    /\ LET changed == Changed(text, original) IN
       /\ disk' = IF changed THEN [disk EXCEPT ![targets[idx]] = text] ELSE disk
       /\ wrote' = [wrote EXCEPT ![targets[idx]] = changed]
       /\ edits' = Append(edits, [path |-> targets[idx], changed |-> changed,
                                  details |-> details])
    /\ idx' = idx + 1
    /\ pc' = "loop"
    /\ UNCHANGED <<exists, orig, run, rule, original, text, newline, details,
                   prev, last, d, err>>

\* main: the summary is printed and 0 is returned
Summary ==
    /\ pc = "loop" /\ idx > Len(targets)
    /\ pc' = "done"
    /\ UNCHANGED <<disk, exists, orig, run, idx, rule, original, text, newline,
                   details, prev, last, d, edits, wrote, err>>

MaxRuns == 2

\* the script is started again on the files the finished run left
Rerun ==
    /\ pc = "done" /\ run < MaxRuns
    /\ run' = run + 1
    /\ orig' = disk
    /\ pc' = "loop"
    /\ idx' = 1
    /\ edits' = <<>>
    /\ wrote' = [f \in Files |-> FALSE]
    /\ last' = "none"
    /\ prev' = <<>>
    /\ d' = <<>>
    /\ UNCHANGED <<disk, exists, rule, original, text, newline, details, err>>

----------------------------------------------------------------------------
(* The input files *)

MaxBlank == 2        \* blank lines after a declaration
MaxExpr == 4         \* lexemes of an expression of the source file
MaxDataLines == 2    \* lines of the data file

NLs == {<<LF>>, <<CR, LF>>}
Other(nl) == IF nl = <<LF>> THEN <<CR, LF>> ELSE <<LF>>

RECURSIVE Rep(_, _)
Rep(s, k) == IF k = 0 THEN <<>> ELSE s \o Rep(s, k - 1)

IncludeParts(nl) ==
    { <<IFNDEF_CI>> \o nl \o <<DEFINE_CI>> \o nl \o <<INC_RTW>> \o nl,
      <<IFNDEF_CI>> \o nl \o <<DEFINE_CI>> \o nl \o <<INC_RTW, SP>> \o nl \o nl,
      <<IFNDEF_CI>> \o nl \o <<SP, DEFINE_CI>> \o nl \o <<INC_RTW>> \o nl,
      <<>> }

GuardParts(nl) ==
    { <<>>, guarded_include(nl) \o nl, guarded_include(Other(nl)) \o Other(nl) }

StructParts(nl) ==
    { <<STRUCT_RTM>> \o nl \o <<SP, SP, STMT>> \o nl \o <<RBRACE, STMT>> \o nl,
      <<STRUCT_RTM>> \o nl \o <<SP, SP, DEFPARAM>> \o nl \o <<RBRACE, STMT>> \o nl,
      <<SP, SP, DEFPARAM>> \o nl,
      <<>> }

ExternParts(nl) ==
    { e \o <<STMT>> \o nl :
        e \in { <<>>,
                <<EXTERN_RTP>> \o nl,
                <<SP, SP, EXTERN_RTP>> \o nl,
                <<EXTERN_RTP, SP>> \o nl,
                <<STMT, SP, EXTERN_RTP>> \o nl,
                <<EXTERN_RTP, SP, STMT>> \o nl,
                <<SLASHES, EXTERN_RTP>> \o nl,
                <<EXTERN_RTP>> \o nl \o <<EXTERN_RTP>> \o nl }
              \cup { <<EXTERN_RTP>> \o nl \o Rep(nl, k) : k \in 1..MaxBlank } }
    \cup { <<EXTERN_RTP>>, <<EXTERN_RTP>> \o nl }

HeaderDocs ==
    UNION { { i \o g \o s \o e : i \in IncludeParts(nl), g \in GuardParts(nl),
                                s \in StructParts(nl), e \in ExternParts(nl) }
            : nl \in NLs }

\* the function function_name: its signature line, the place of its "{" and its body
FunctionText(function_name, form, body, nl) ==
    LET sig == <<SigLexeme(function_name)>>
        head == CASE form = "next" -> sig \o nl \o <<LBRACE>> \o nl
                  [] form = "same" -> sig \o <<SP, LBRACE>> \o nl
                  [] form = "near" -> sig \o nl \o Rep(nl, BraceWindow - 2) \o <<LBRACE>> \o nl
                  [] form = "far" -> sig \o nl \o Rep(nl, BraceWindow - 1) \o <<LBRACE>> \o nl
        stmt == <<SP, SP, STMT>> \o nl
        ptr == <<SP, SP, NEEDLE>> \o nl
        rest == CASE body = "empty" -> <<>>
                  [] body = "patched" -> ptr
                  [] body = "long" -> Rep(stmt, NeedleWindow - 4)
                  [] body = "inside" -> Rep(stmt, NeedleWindow - 2) \o ptr
                  [] body = "outside" -> Rep(stmt, NeedleWindow - 1) \o ptr
    IN  IF form = "absent" THEN <<>> ELSE head \o rest \o <<RBRACE>> \o nl \o nl

Forms == {"next", "same", "near", "far"}
Bodies == {"empty", "patched", "long", "inside", "outside"}

FunctionTexts(function_name, nl) ==
    { FunctionText(function_name, f, b, nl) : f \in Forms, b \in Bodies } \cup { <<>> }

FunctionDocs ==
    UNION { { a \o b : a \in FunctionTexts(INIT_FN, nl), b \in FunctionTexts(STEP_FN, nl) }
            \cup { b \o a : a \in FunctionTexts(INIT_FN, nl), b \in FunctionTexts(STEP_FN, nl) }
            : nl \in NLs }

RECURSIVE Exprs(_)
\* the expressions of at most k lexemes
Exprs(k) ==
    IF k = 0 THEN { <<>> }
    ELSE LET shorter == Exprs(k - 1)
         IN  shorter \cup { Append(e, c) : e \in shorter, c \in {RTP, RTp, DOT, WORD} }

ExprDocs ==
    { FunctionText(STEP_FN, "next", "empty", <<LF>>) \o b \o e \o <<STMT, LF>> :
        b \in { <<>>, <<RTP, DOT, WORD, SP>> }, e \in Exprs(MaxExpr) }

SourceDocs == FunctionDocs \cup ExprDocs

DataLines ==
    { <<TYPE_P, SP, RTP, SP, EQ, SP, STMT>>,
      <<TYPE_P, SP, RTP, SUFFIX_LEFT, SP, EQ, SP, STMT>>,
      <<SP, SP, TYPE_P, SP, RTP, EQ, STMT>>,
      <<WORD, SP, TYPE_P, SP, RTP, SP, EQ, STMT>>,
      <<TYPE_P>>,
      <<RTP, SP, EQ, STMT>>,
      <<STMT>> }

RECURSIVE LinesUpTo(_, _)
\* the texts of at most k lines of DataLines, each ended by nl
LinesUpTo(k, nl) ==
    IF k = 0 THEN { <<>> }
    ELSE LET shorter == LinesUpTo(k - 1, nl)
         IN  shorter \cup { t \o l \o nl : t \in shorter, l \in DataLines }

DataDocs == UNION { LinesUpTo(MaxDataLines, nl) : nl \in NLs }

\* the files as the generator leaves them, the files of a finished run, and
\* files whose structure has drifted
GeneratedHeader ==
    <<IFNDEF_CI, LF, DEFINE_CI, LF, INC_RTW, LF, STRUCT_RTM, LF, SP, SP, STMT, LF,
      RBRACE, STMT, LF, EXTERN_RTP, LF, STMT, LF>>
GeneratedSource ==
    FunctionText(STEP_FN, "next", "long", <<LF>>)
    \o FunctionText(INIT_FN, "next", "empty", <<LF>>) \o <<RTP, DOT, WORD, STMT, LF>>
GeneratedData == <<TYPE_P, SP, RTP, SP, EQ, SP, STMT, LF>>

HeaderBase == { GeneratedHeader, PatchText(HEADER, GeneratedHeader).text, <<STMT, LF>> }
SourceBase == { GeneratedSource, PatchText(SOURCE, GeneratedSource).text,
                FunctionText(STEP_FN, "far", "empty", <<LF>>) }
DataBase == { GeneratedData, PatchText(DATA, GeneratedData).text }

\* the runs started: one file drawn from all its texts beside generated files, and
\* the base files with at most one of them missing
Inputs ==
    { [h |-> h, c |-> GeneratedSource, d |-> GeneratedData, missing |-> {}] : h \in HeaderDocs }
    \cup { [h |-> GeneratedHeader, c |-> c, d |-> GeneratedData, missing |-> {}] : c \in SourceDocs }
    \cup { [h |-> GeneratedHeader, c |-> GeneratedSource, d |-> dd, missing |-> {}] : dd \in DataDocs }
    \cup { [h |-> h, c |-> c, d |-> dd, missing |-> m] :
             h \in HeaderBase, c \in SourceBase, dd \in DataBase,
             m \in { {}, {HEADER}, {SOURCE}, {DATA} } }

Init ==
    \E in \in Inputs :
        /\ exists = [f \in Files |-> f \notin in.missing]
        /\ disk = [f \in Files |->
                     IF f \in in.missing THEN NoFile
                     ELSE CASE f = HEADER -> in.h [] f = SOURCE -> in.c [] f = DATA -> in.d]
        /\ orig = disk
        /\ run = 1
        /\ pc = "loop"
        /\ idx = 1
        /\ rule = 1
        /\ original = <<>>
        /\ text = <<>>
        /\ newline = <<LF>>
        /\ details = <<>>
        /\ prev = <<>>
        /\ last = "none"
        /\ d = <<>>
        /\ edits = <<>>
        /\ wrote = [f \in Files |-> FALSE]
        /\ err = NoError

Next ==
    \/ MissingFile
    \/ ReadFile
    \/ PatchHeaderInclude
    \/ PatchHeaderDefaultParam
    \/ PatchHeaderExtern
    \/ EnsureInitialize
    \/ EnsureStep
    \/ PatchParamAccess
    \/ PatchDataParamsName
    \/ WriteBack
    \/ Summary
    \/ Rerun

Spec == Init /\ [][Next]_vars

----------------------------------------------------------------------------
(* The claims *)

\* the file called name has been through patch_file in the current run
Processed(name) == \E k \in 1..Len(targets) : targets[k] = name /\ k < idx

\* every line terminator of t is "\r\n"
OnlyCRLF(t) ==
    \A i \in 1..Len(t) :
        /\ t[i] = LF => (i > 1 /\ t[i - 1] = CR)
        /\ t[i] = CR => (i < Len(t) /\ t[i + 1] = LF)

\* t holds no "\r"
NoCR(t) == \A i \in 1..Len(t) : t[i] # CR

\* C1. Full-run idempotency: a second run on the files a finished first run left
\* changes no file, writes nothing and reports every file ok with no detail.
C1_FullRunIdempotent ==
    (run > 1 /\ pc = "done") =>
        /\ disk = orig
        /\ \A f \in Files : ~wrote[f]
        /\ \A i \in 1..Len(edits) : ~edits[i].changed /\ edits[i].details = <<>>

\* C2. Per-rule idempotency: the rule that has just run, applied again to its own
\* result, returns that result unchanged.
C2_RuleIdempotent ==
    (pc = "patch" /\ last # "none") =>
        LET again == Apply(last, text, _detect_newline(text))
        IN  again.err = NoError /\ again.text = text

\* C3. Line-ending preservation: a file whose terminators are all CRLF stays all
\* CRLF on disk, and a file without CR stays without CR.
C3_LineEndingsPreserved ==
    \A f \in Files :
        /\ OnlyCRLF(orig[f]) => OnlyCRLF(disk[f])
        /\ NoCR(orig[f]) => NoCR(disk[f])

\* C4. Missing-input abort precedes all patching: when the run ends on a missing
\* file, no file has been written.
C4_MissingFileBeforePatching ==
    (pc = "error" /\ err = "FileNotFoundError") =>
        /\ disk = orig
        /\ \A f \in Files : ~wrote[f]

\* the lines of a function body: from the "{" line to the first later "}" line
BodyLines(lines, brace_idx) ==
    LET closes == {j \in (brace_idx + 1)..Len(lines) : Contains(lines[j], <<RBRACE>>)}
    IN  brace_idx..(IF closes = {} THEN Len(lines) ELSE Min(closes))

\* the body of function_name holds the pointer statement
BodyHasPointer(lines, function_name) ==
    LET sig_idx == FindSignature(lines, function_name)
        brace_idx == FindBrace(lines, sig_idx)
    IN  \E j \in BodyLines(lines, brace_idx) : Contains(lines[j], <<NEEDLE>>)

\* the pointer statement is on the line after the "{" line of function_name
PointerFirstInBody(lines, function_name) ==
    LET sig_idx == FindSignature(lines, function_name)
        brace_idx == FindBrace(lines, sig_idx)
    IN  brace_idx < Len(lines) /\ Contains(lines[brace_idx + 1], <<NEEDLE>>)

\* C6. Local param pointer placement: once the source file has been patched, each
\* of the two functions whose signature is located holds the pointer statement in
\* its own body, directly after its "{" line when the body did not hold it before.
C6_PointerInOwnBody ==
    Processed(SOURCE) =>
        LET before == splitlines(orig[SOURCE])
            after == splitlines(disk[SOURCE])
        IN  \A fn \in {INIT_FN, STEP_FN} :
                FindSignature(after, fn) # 0 =>
                    /\ BodyHasPointer(after, fn)
                    /\ ~BodyHasPointer(before, fn) => PointerFirstInBody(after, fn)

\* "extern P rtP;" stands alone on its line behind optional indentation
ExternAlone(t, q) ==
    /\ t[q] = EXTERN_RTP
    /\ \E p \in 1..q : /\ p = 1 \/ t[p - 1] = LF
                       /\ \A k \in p..(q - 1) : t[k] = SP
    /\ \/ q = Len(t)
       \/ t[q + 1] = LF
       \/ q + 1 < Len(t) /\ t[q + 1] = CR /\ t[q + 2] = LF

RECURSIVE CommentedOut(_, _)
\* t from p on with "//" put before every declaration that stands alone on its
\* line, and nothing else changed
CommentedOut(t, p) ==
    LET hits == {q \in p..Len(t) : ExternAlone(t, q)} IN
    IF hits = {} THEN SubSeq(t, p, Len(t))
    ELSE LET q == Min(hits)
         IN  SubSeq(t, p, q - 1) \o <<SLASHES, EXTERN_RTP>> \o CommentedOut(t, q + 1)

\* C7. Extern comment-out scope: the extern rule comments out the declaration
\* lines and leaves every other lexeme, white space and line terminator as it was.
C7_ExternChangesNothingElse ==
    (pc = "patch" /\ last = "extern") => text = CommentedOut(prev, 1)

\* the text patch_file computes for the file called name from its text at the
\* start of the run
FullyPatched(name) == PatchText(name, orig[name])

\* C5. Per-file write atomicity: a file on disk holds its original text or its
\* fully patched text, never a text in between; it is written exactly when all its
\* rules have run and the result differs; a file whose rule raises, and every
\* later file, is left as it was.
C5_WriteAtomicity ==
    /\ \A f \in Files : exists[f] =>
          LET p == FullyPatched(f) IN
          /\ disk[f] = orig[f] \/ (p.err = NoError /\ disk[f] = p.text)
          /\ wrote[f] <=> (Processed(f) /\ p.err = NoError /\ p.text # orig[f])
          /\ wrote[f] <=> disk[f] # orig[f]
    /\ (pc = "error" /\ err # "FileNotFoundError") =>
          \A k \in idx..Len(targets) :
              disk[targets[k]] = orig[targets[k]] /\ ~wrote[targets[k]]

\* the header has been written, the source file raised after a rule had already
\* changed its text in memory
C5_Witness ==
    /\ pc = "error" /\ err = "no opening brace"
    /\ targets[idx] = SOURCE
    /\ text # original
    /\ wrote[HEADER]
    /\ disk[SOURCE] = orig[SOURCE]

\* rtP or rtp starts at a token boundary at i and "." follows
DotOccurrence(t, i) ==
    /\ t[i] \in {RTP, RTp}
    /\ i = 1 \/ ~EndsWord(t[i - 1])
    /\ i < Len(t) /\ t[i + 1] = DOT

\* the detail list that reports n1 rewrites of "rtP." and n2 of "rtp."
DotReport(n1, n2) ==
    (IF n1 > 0 THEN <<Detail("replaced rtP.", n1)>> ELSE <<>>)
    \o (IF n2 > 0 THEN <<Detail("replaced rtp.", n2)>> ELSE <<>>)

\* C8. Pointer dot-access rewrite: every "." behind a token-bounded rtP or rtp has
\* become "->", none is left, the counts reported are the numbers rewritten, and
\* every other lexeme is as it was.
C8_DotAccessRewritten ==
    (pc = "patch" /\ last = "param_access") =>
        /\ Len(text) = Len(prev)
        /\ \A i \in 1..Len(prev) :
              text[i] = IF i > 1 /\ DotOccurrence(prev, i - 1) THEN ARROW ELSE prev[i]
        /\ \A i \in 1..Len(text) : ~DotOccurrence(text, i)
        /\ d = DotReport(Cardinality({i \in 1..Len(prev) : DotOccurrence(prev, i) /\ prev[i] = RTP}),
                         Cardinality({i \in 1..Len(prev) : DotOccurrence(prev, i) /\ prev[i] = RTp}))

\* a "rtP." was rewritten while an identifier that ends in rtP kept its "."
C8_Witness ==
    /\ pc = "patch" /\ last = "param_access"
    /\ d # <<>>
    /\ \E i \in 1..(Len(prev) - 2) :
          prev[i] = WORD /\ prev[i + 1] = RTP /\ prev[i + 2] = DOT /\ text[i + 2] = DOT
    /\ \E i \in 1..(Len(prev) - 1) : prev[i] = RTP /\ text[i + 1] = ARROW

AllSpace(t, a, b) == \A k \in a..b : IsSpace(t[k])

\* the include-guard lines and #include "rtwtypes.h", each on a line of its own
HasIncludeBlock(t) ==
    \E i \in 1..Len(t) :
        /\ t[i] = IFNDEF_CI
        /\ \E a \in (i + 2)..Len(t) :
              /\ t[a] = DEFINE_CI /\ t[a - 1] = LF /\ AllSpace(t, i + 1, a - 1)
              /\ \E b \in (a + 2)..Len(t) :
                    /\ t[b] = INC_RTW /\ t[b - 1] = LF /\ AllSpace(t, a + 1, b - 1)
                    /\ \E c \in (b + 1)..Len(t) : t[c] = LF /\ AllSpace(t, b + 1, c)

\* a "{" on the signature line or one of the 9 lines after it
BraceNearby(lines, sig_idx) ==
    \E j \in sig_idx..(sig_idx + 9) : j <= Len(lines) /\ Contains(lines[j], <<LBRACE>>)

\* the rule r has just run, or raised
AfterRule(r) == last = r /\ (pc = "patch" \/ (pc = "error" /\ err # "FileNotFoundError"))

Raised(msg) == pc = "error" /\ err = msg

\* C9. Fatal structural anchors: the run stops with an error exactly when an absent
\* adaptation has no anchor (include block, struct tag_RTM, "{" within 10 lines of
\* a located signature); a function whose signature is not found is passed over
\* silently, with the text unchanged and no detail.
C9_FatalAnchors ==
    /\ pc = "error" <=> err # NoError
    /\ pc = "error" => ~ENABLED Next
    /\ AfterRule("include") =>
          (Raised("no COMMON_INCLUDES block")
             <=> (~Contains(prev, guarded_include(newline)) /\ ~HasIncludeBlock(prev)))
    /\ AfterRule("defaultParam") =>
          (Raised("no struct tag_RTM")
             <=> (~Contains(prev, <<DEFPARAM>>) /\ ~Contains(prev, <<STRUCT_RTM>>)))
    /\ \A fn \in {INIT_FN, STEP_FN} :
          AfterRule(IF fn = INIT_FN THEN "ptr_initialize" ELSE "ptr_step") =>
              LET lines == splitlines(prev)
                  sig_idx == FindSignature(lines, fn)
              IN  /\ Raised("no opening brace")
                        <=> (sig_idx # 0 /\ ~BraceNearby(lines, sig_idx))
                  /\ sig_idx = 0 => (pc = "patch" /\ text = prev /\ d = <<>>)
    /\ AfterRule("extern") \/ AfterRule("param_access") \/ AfterRule("rename") => pc = "patch"

\* BLDC_controller_initialize raised although a "{" stands on the 10th line after
\* its signature
C9_Witness ==
    /\ AfterRule("ptr_initialize") /\ Raised("no opening brace")
    /\ LET lines == splitlines(prev)
           sig_idx == FindSignature(lines, INIT_FN)
       IN  sig_idx + 10 <= Len(lines) /\ Contains(lines[sig_idx + 10], <<LBRACE>>)

\* C10. Report consistency: a FileEdit has changed = true exactly when its detail
\* list is not empty.
C10_ReportConsistent ==
    \A i \in 1..Len(edits) : edits[i].changed <=> edits[i].details # <<>>

\* a finished run that reports one file patched, with details, and another ok
C10_Witness ==
    /\ pc = "done"
    /\ \E i, j \in 1..Len(edits) :
          /\ edits[i].changed /\ edits[i].details # <<>>
          /\ ~edits[j].changed /\ edits[j].details = <<>>

====
